---- MODULE Spec2Model ----
(***************************************************************************)
(* Model of agent-transactional-chat: the chat agent (api-agent) that      *)
(* negotiates a transfer and publishes a TransferRequest, and the transfer *)
(* consumer (api-transactions) that processes the requests.                *)
(*                                                                         *)
(* Text is modelled at character level: a text is a sequence of one-       *)
(* character strings, so that strip(), lower(), the substring test `in`    *)
(* and the regular expressions of validators.py are computed, not assumed. *)
(***************************************************************************)
EXTENDS Integers, Sequences, FiniteSets, TLC

\* Python's Optional: None is the empty tuple, a present value v the tuple <<v>>
None == <<>>

Some(v) == <<v>>

(***************************************************************************)
(* Python str primitives on character sequences                            *)
(***************************************************************************)
Digits == {"0", "1", "2", "3", "4", "5", "6", "7", "8", "9"}

AsciiUpper == <<"A", "B", "C", "D", "E", "F", "G", "H", "I", "J", "K", "L", "M",
                 "N", "O", "P", "Q", "R", "S", "T", "U", "V", "W", "X", "Y", "Z">>

AsciiLower == <<"a", "b", "c", "d", "e", "f", "g", "h", "i", "j", "k", "l", "m",
                 "n", "o", "p", "q", "r", "s", "t", "u", "v", "w", "x", "y", "z">>

Whitespace == {" ", "\t", "\n", "\r"}

\* one character of str.lower()
LowerChar(c) ==
    IF \E i \in 1..26 : AsciiUpper[i] = c
    THEN AsciiLower[CHOOSE i \in 1..26 : AsciiUpper[i] = c]
    ELSE c

\* str.lower()
lower(s) == [i \in 1..Len(s) |-> LowerChar(s[i])]

\* str.strip(): leading and trailing whitespace removed
strip(s) ==
    LET idx == {i \in 1..Len(s) : s[i] \notin Whitespace}
    IN  IF idx = {} THEN <<>>
        ELSE LET lo == CHOOSE i \in idx : \A j \in idx : i <= j
                 hi == CHOOSE i \in idx : \A j \in idx : j <= i
             IN  SubSeq(s, lo, hi)

\* the Python test `w in s` on strings
contains(s, w) ==
    \E i \in 1..(Len(s) - Len(w) + 1) : SubSeq(s, i, i + Len(w) - 1) = w

\* the characters of s that satisfy keep, in order (re.sub of a character class by "")
RECURSIVE FilterChars(_, _)
FilterChars(s, keepSet) ==
    IF s = <<>> THEN <<>>
    ELSE IF Head(s) \in keepSet
         THEN <<Head(s)>> \o FilterChars(Tail(s), keepSet)
         ELSE FilterChars(Tail(s), keepSet)

RECURSIVE DropChars(_, _)
DropChars(s, dropSet) ==
    IF s = <<>> THEN <<>>
    ELSE IF Head(s) \in dropSet
         THEN DropChars(Tail(s), dropSet)
         ELSE <<Head(s)>> \o DropChars(Tail(s), dropSet)

\* str.isdigit() (false on the empty string)
isdigit(s) == Len(s) > 0 /\ \A i \in 1..Len(s) : s[i] \in Digits

\* the regular expression class \w on the modelled alphabet
WordChars == Digits \cup {AsciiUpper[i] : i \in 1..26} \cup {AsciiLower[i] : i \in 1..26} \cup {"_"}

(***************************************************************************)
(* validators.py                                                           *)
(***************************************************************************)
\* the end of the maximal digit run that starts at i (i-1 when s[i] is no digit)
DigitRunEnd(s, i) ==
    CHOOSE j \in (i - 1)..Len(s) :
        /\ \A k \in i..j : s[k] \in Digits
        /\ (j = Len(s) \/ s[j + 1] \notin Digits)

\* validate_phone_number: the flag of the returned pair
validate_phone_number(phone) ==
    LET cleaned_phone == DropChars(phone, Whitespace \cup {"-", "(", ")"})
    IN  isdigit(cleaned_phone) /\ Len(cleaned_phone) = 10

\* the start positions at which the pattern \b\d{10}\b matches
PhoneMatchStarts(text) ==
    {i \in 1..(Len(text) - 9) :
        /\ \A k \in i..(i + 9) : text[k] \in Digits
        /\ (i = 1 \/ text[i - 1] \notin WordChars)
        /\ (i + 9 = Len(text) \/ text[i + 10] \notin WordChars)}

extract_phone_number(text) ==
    LET matches == PhoneMatchStarts(text)
        cleaned == FilterChars(text, Digits)
    IN  IF matches # {}
        THEN LET first == CHOOSE i \in matches : \A j \in matches : i <= j
             IN  Some(SubSeq(text, first, first + 9))
        ELSE IF Len(cleaned) = 10 THEN Some(cleaned)
        ELSE IF Len(cleaned) = 11 THEN Some(SubSeq(cleaned, 2, 11))
        ELSE None

RECURSIVE StripLeadingZeros(_)
StripLeadingZeros(d) ==
    IF d # <<>> /\ Head(d) = "0" THEN StripLeadingZeros(Tail(d)) ELSE d

RECURSIVE StripTrailingZeros(_)
StripTrailingZeros(d) ==
    IF d # <<>> /\ d[Len(d)] = "0" THEN StripTrailingZeros(SubSeq(d, 1, Len(d) - 1)) ELSE d

\* float() of a numeral matched by \d+\.?\d*: the value as its integer digits
\* (no leading zero) and its fraction digits (no trailing zero); 0.0 is the
\* value with both empty.  Exact for numerals of at most 15 significant digits.
float(ipDigits, fpDigits) ==
    [ip |-> StripLeadingZeros(ipDigits), fp |-> StripTrailingZeros(fpDigits)]

FloatIsPositive(v) == v.ip # <<>> \/ v.fp # <<>>

\* re.sub(r",(\d{1,2})$", r".\1", cleaned)
DecimalComma(cleaned) ==
    LET n == Len(cleaned)
    IN  IF n >= 2 /\ cleaned[n - 1] = "," /\ cleaned[n] \in Digits
        THEN [cleaned EXCEPT ![n - 1] = "."]
        ELSE IF n >= 3 /\ cleaned[n - 2] = "," /\ cleaned[n - 1] \in Digits /\ cleaned[n] \in Digits
        THEN [cleaned EXCEPT ![n - 2] = "."]
        ELSE cleaned

\* if cleaned.count(".") > 1: every "." but the last one is removed
MergeDots(cleaned) ==
    LET dots == {i \in 1..Len(cleaned) : cleaned[i] = "."}
    IN  IF Cardinality(dots) > 1
        THEN LET last == CHOOSE i \in dots : \A j \in dots : j <= i
             IN  DropChars(SubSeq(cleaned, 1, last - 1), {"."}) \o SubSeq(cleaned, last, Len(cleaned))
        ELSE cleaned

\* validate_amount: None when the returned flag is False, the amount otherwise
validate_amount(amount_text) ==
    LET cleaned == MergeDots(DecimalComma(DropChars(lower(amount_text), Whitespace \cup {"$"})))
        starts  == {i \in 1..Len(cleaned) : cleaned[i] \in Digits}
    IN  IF starts = {} THEN None
        ELSE LET b  == CHOOSE i \in starts : \A j \in starts : i <= j
                 e  == DigitRunEnd(cleaned, b)
                 fe == IF e < Len(cleaned) /\ cleaned[e + 1] = "."
                       THEN DigitRunEnd(cleaned, e + 2) ELSE e
                 amount == float(SubSeq(cleaned, b, e), SubSeq(cleaned, e + 2, fe))
             IN  IF FloatIsPositive(amount) THEN Some(amount) ELSE None

extract_amount(text) == validate_amount(text)

DigitChar(n) == <<"0", "1", "2", "3", "4", "5", "6", "7", "8", "9">>[n + 1]

\* a two-digit exponent, as Python prints it (e-05)
DecimalDigits2(n) == <<DigitChar((n \div 10) % 10), DigitChar(n % 10)>>

\* str(amount) of a Python float: decimal notation from 1e-4 up to 1e16,
\* exponent notation below 1e-4 (numerals of 17 and more digits are outside
\* the modelled texts)
FloatStr(v) ==
    LET lead == StripLeadingZeros(v.fp)
        zeros == Len(v.fp) - Len(lead)
    IN  IF v.ip = <<>> /\ v.fp # <<>> /\ zeros >= 4
        THEN <<Head(lead)>> \o (IF Len(lead) > 1 THEN <<".">> \o Tail(lead) ELSE <<>>)
             \o <<"e", "-">> \o DecimalDigits2(zeros + 1)
        ELSE (IF v.ip = <<>> THEN <<"0">> ELSE v.ip) \o <<".">>
             \o (IF v.fp = <<>> THEN <<"0">> ELSE v.fp)

DENY_WORDS ==
    { <<"n", "o">>,
      <<"c", "a", "n", "c", "e", "l", "a", "r">>,
      <<"c", "a", "n", "c", "e", "l">>,
      <<"n", "o", "p", "e">> }

balance_keywords ==
    { <<"s", "a", "l", "d", "o">>,
      <<"b", "a", "l", "a", "n", "c", "e">>,
      <<"c", "u", "a", "n", "t", "o", " ", "t", "e", "n", "g", "o">>,
      <<"c", "u", "a", "n", "t", "o", " ", "d", "i", "n", "e", "r", "o", " ", "t", "e", "n", "g", "o">>,
      <<"c", "u", "a", "n", "t", "o", " ", "t", "e", "n", "g", "o", " ", "d", "i", "s", "p", "o", "n", "i", "b", "l", "e">>,
      <<"m", "i", " ", "s", "a", "l", "d", "o">>,
      <<"v", "e", "r", " ", "s", "a", "l", "d", "o">>,
      <<"c", "o", "n", "s", "u", "l", "t", "a", "r", " ", "s", "a", "l", "d", "o">>,
      <<"c", "u", "a", "n", "t", "o", " ", "e", "s", " ", "m", "i", " ", "s", "a", "l", "d", "o">>,
      <<"d", "i", "m", "e", " ", "m", "i", " ", "s", "a", "l", "d", "o">>,
      <<"m", "u", "e", "s", "t", "r", "a", "m", "e", " ", "m", "i", " ", "s", "a", "l", "d", "o">>,
      <<"q", "u", "i", "e", "r", "o", " ", "s", "a", "b", "e", "r", " ", "m", "i", " ", "s", "a", "l", "d", "o">>,
      <<"c", "u", "a", "n", "t", "o", " ", "t", "e", "n", "g", "o", " ", "e", "n", " ", "m", "i", " ", "c", "u", "e", "n", "t", "a">> }

clearly_out_of_context ==
    { <<"d", "i", "s", "t", "a", "n", "c", "i", "a", " ", "d", "e", "l", " ", "s", "o", "l">>,
      <<"d", "i", "s", "t", "a", "n", "c", "i", "a", " ", "d", "e", " ", "l", "a", " ", "l", "u", "n", "a">>,
      <<"d", "i", "s", "t", "a", "n", "c", "i", "a", " ", "d", "e", "l", " ", "s", "o", "l", " ", "a", " ", "l", "a", " ", "l", "u", "n", "a">>,
      <<"d", "i", "s", "t", "a", "n", "c", "i", "a", " ", "e", "n", "t", "r", "e", " ", "e", "l", " ", "s", "o", "l", " ", "y", " ", "l", "a", " ", "l", "u", "n", "a">>,
      <<"p", "l", "a", "n", "e", "t", "a">>,
      <<"p", "l", "a", "n", "e", "t", "a", "s">>,
      <<"e", "s", "t", "r", "e", "l", "l", "a">>,
      <<"e", "s", "t", "r", "e", "l", "l", "a", "s">>,
      <<"g", "a", "l", "a", "x", "i", "a">>,
      <<"g", "a", "l", "a", "x", "i", "a", "s">>,
      <<"u", "n", "i", "v", "e", "r", "s", "o">>,
      <<"a", "s", "t", "r", "o", "n", "o", "m", "i", "a">>,
      <<"a", "s", "t", "r", "o", "n", "a", "u", "t", "a">>,
      <<"n", "a", "s", "a">>,
      <<"s", "a", "t", "e", "l", "i", "t", "e">>,
      <<"f", "o", "r", "m", "u", "l", "a", " ", "q", "u", "i", "m", "i", "c", "a">>,
      <<"e", "c", "u", "a", "c", "i", "o", "n", " ", "f", "i", "s", "i", "c", "a">>,
      <<"t", "e", "o", "r", "e", "m", "a", " ", "m", "a", "t", "e", "m", "a", "t", "i", "c", "o">>,
      <<"c", "a", "p", "i", "t", "a", "l", " ", "d", "e">>,
      <<"p", "a", "i", "s", " ", "m", "a", "s", " ", "g", "r", "a", "n", "d", "e">>,
      <<"t", "e", "m", "p", "e", "r", "a", "t", "u", "r", "a", " ", "e", "n">>,
      <<"c", "l", "i", "m", "a", " ", "e", "n">>,
      <<"p", "r", "o", "n", "o", "s", "t", "i", "c", "o", " ", "d", "e", "l", " ", "t", "i", "e", "m", "p", "o">> }

\* is_transfer_related(message): the keywords with accented letters cannot occur
\* in the modelled (ASCII) texts and are left out of clearly_out_of_context;
\* every path that does not hit an out-of-context keyword returns True
is_transfer_related(message) ==
    LET message_lower == strip(lower(message))
    IN  IF message_lower = <<>> THEN TRUE
        ELSE ~ \E keyword \in clearly_out_of_context : contains(message_lower, keyword)

(***************************************************************************)
(* The user messages of the chat turns explored                            *)
(***************************************************************************)
MSG_CONFIRMO == <<"c", "o", "n", "f", "i", "r", "m", "o">>

MSG_CONFIRMO_PADDED == <<"C", "o", "n", "f", "i", "r", "m", "o", " ">>

MSG_CONFIRMO_AHORA == <<"c", "o", "n", "f", "i", "r", "m", "o", " ", "a", "h", "o", "r", "a">>

MSG_NO == <<"n", "o">>

MSG_PHONE == <<"3", "0", "0", "1", "2", "3", "4", "5", "6", "7">>

MSG_AMOUNT == <<"5", "0", "0", "0", "0">>

MSG_BOTH == <<"e", "n", "v", "i", "a", " ", "5", "0", "0", "0", "0", " ", "a", "l", " ", "3", "0", "0", "1", "2", "3", "4", "5", "6", "7">>

MSG_HOLA == <<"h", "o", "l", "a">>

MSG_SALDO == <<"s", "a", "l", "d", "o">>

MSG_PLANETA == <<"p", "l", "a", "n", "e", "t", "a">>

\* the confirmation keyword (exact; in another case and padded; with an extra
\* word), a deny word, a phone, an amount, both at once, free text, a balance
\* query and an off-topic message
UserMessages ==
    {MSG_CONFIRMO, MSG_CONFIRMO_PADDED, MSG_CONFIRMO_AHORA, MSG_NO,
     MSG_PHONE, MSG_AMOUNT, MSG_BOTH, MSG_HOLA, MSG_SALDO, MSG_PLANETA}

(***************************************************************************)
(* transaction_agent.py: the state of one graph run and its messages       *)
(***************************************************************************)
CONFIRM_WORD == <<"c", "o", "n", "f", "i", "r", "m", "o">>

\* a message of the conversation; the content of a user message is its text,
\* the content of an assistant message is either a text the language model
\* returned (kind "llm") or one of the literals of transaction_agent.py,
\* named by its kind; txn is the transaction id a literal embeds
Content(kind, text, txn) == [kind |-> kind, text |-> text, txn |-> txn]

UserMsg(text) == [role |-> "user", content |-> Content("user", text, None)]

AssistantMsg(content) == [role |-> "assistant", content |-> content]

RATE_LIMIT_MESSAGE == Content("fallback_rate_limit", <<>>, None)

CONFIGURATION_MESSAGE == Content("fallback_configuration", <<>>, None)

GENERIC_ERROR_MESSAGE == Content("fallback_generic", <<>>, None)

BALANCE_UNAVAILABLE_MESSAGE == Content("balance_unavailable", <<>>, None)

REDIRECT_MESSAGE == Content("redirect", <<>>, None)

MISSING_DATA_MESSAGE == Content("missing_data", <<>>, None)

PROCESSING_MESSAGE(txn) == Content("processing", <<>>, Some(txn))

SEND_PROBLEM_MESSAGE(txn) == Content("send_problem", <<>>, Some(txn))

NO_RESPONSE_MESSAGE == Content("no_response", <<>>, None)

FallbackMessages == {RATE_LIMIT_MESSAGE, CONFIGURATION_MESSAGE, GENERIC_ERROR_MESSAGE}

\* the outcomes of self.llm.invoke: a reply, or one of the exceptions that
\* _process_message and _check_confirmation tell apart
LLM_TEXT_PLAIN == <<"D", "i", "m", "e", " ", "e", "l", " ", "m", "o", "n", "t", "o">>

LLM_TEXT_PROMPT == <<"e", "s", "c", "r", "i", "b", "e", " ", "C", "O", "N", "F", "I", "R", "M", "O">>

LLMReplies == {[exc |-> "none", text |-> LLM_TEXT_PLAIN], [exc |-> "none", text |-> LLM_TEXT_PROMPT]}

LLMFailures ==
    {[exc |-> e, text |-> <<>>] :
        e \in {"RateLimitError", "PermissionDeniedError_region", "PermissionDeniedError", "Exception"}}

LLMOutcomes == LLMReplies \cup LLMFailures

NoLLMCall == [exc |-> "not_called", text |-> <<>>]

\* the assistant content that the except clauses of an llm.invoke produce
LLMErrorResponse(outcome) ==
    IF outcome.exc = "RateLimitError" THEN RATE_LIMIT_MESSAGE
    ELSE IF outcome.exc = "PermissionDeniedError_region" THEN CONFIGURATION_MESSAGE
    ELSE GENERIC_ERROR_MESSAGE

RECURSIVE LastWithRole(_, _)
LastWithRole(messages, role) ==
    IF messages = <<>> THEN None
    ELSE IF messages[Len(messages)].role = role THEN Some(messages[Len(messages)].content)
    ELSE LastWithRole(SubSeq(messages, 1, Len(messages) - 1), role)

\* _get_last_user_message: the text of the last user message, None without one
get_last_user_message(messages) ==
    LET c == LastWithRole(messages, "user")
    IN  IF c = None THEN None ELSE Some(c[1].text)

\* _get_user_balance: AgentService builds TransactionAgent without a database
\* session, so self.db is None and the lookup returns (None, "COP")
get_user_balance(user_id) == None

is_balance_query(message) ==
    IF message = <<>> THEN FALSE
    ELSE LET message_lower == strip(lower(message))
         IN  \E keyword \in balance_keywords : contains(message_lower, keyword)

(***************************************************************************)
(* transaction_agent.py: the nodes and the edges of the graph              *)
(***************************************************************************)
Truthy(opt) == opt # None

\* _is_confirmed taking any message that contains the keyword as a confirmation
is_confirmed_text_contains(last_user_message) ==
    IF last_user_message = <<>> THEN "waiting"
    ELSE LET cleaned_message == lower(strip(last_user_message))
         IN  IF contains(cleaned_message, CONFIRM_WORD) THEN "yes"
             ELSE IF \E word \in DENY_WORDS : contains(cleaned_message, word) THEN "no"
             ELSE "waiting"

\* _is_confirmed comparing the message as typed, without strip().lower()
is_confirmed_text_as_typed(last_user_message) ==
    IF last_user_message = <<>> THEN "waiting"
    ELSE IF last_user_message = CONFIRM_WORD THEN "yes"
    ELSE IF \E word \in DENY_WORDS : contains(last_user_message, word) THEN "no"
    ELSE "waiting"

\* _is_confirmed on the last user message
is_confirmed_text(last_user_message) ==
    IF last_user_message = <<>> THEN "waiting"
    ELSE LET cleaned_message == lower(strip(last_user_message))
         IN  IF cleaned_message = CONFIRM_WORD THEN "yes"
             ELSE IF \E word \in DENY_WORDS : contains(cleaned_message, word) THEN "no"
             ELSE "waiting"

\* what _extract_info computes for a field that is still unset: the extraction,
\* then the validation of what was extracted (None: the field stays unset)
ExtractedPhone(text) ==
    LET phone == extract_phone_number(text)
    IN  IF Truthy(phone) /\ validate_phone_number(phone[1]) THEN phone ELSE None

ExtractedAmount(text) ==
    LET amount == extract_amount(text)
    IN  IF Truthy(amount) THEN validate_amount(FloatStr(amount[1])) ELSE None

\* the functions of the agent that read the text of the user message,
\* tabulated over the messages explored
UserTextTable ==
    [text \in UserMessages |->
        [is_confirm_word |-> lower(strip(text)) = CONFIRM_WORD,
         is_balance_query |-> is_balance_query(text),
         is_transfer_related |-> is_transfer_related(text),
         phone |-> ExtractedPhone(text),
         amount |-> ExtractedAmount(text),
         is_confirmed |-> is_confirmed_text(text)]]

\* "confirmo" in content.lower(), tabulated over the language-model replies
ReplyTextTable ==
    [text \in {LLM_TEXT_PLAIN, LLM_TEXT_PROMPT} |-> contains(lower(text), CONFIRM_WORD)]

\* The two tables are evaluated once, when the model starts, and read from
\* there by the nodes of the graph: textTables never changes.
VARIABLE textTables

OfText == textTables.user

ReplyHasConfirmo == textTables.reply

\* "confirmo" in content.lower(): computed on the text of a language-model
\* reply; none of the literals of transaction_agent.py contains the word
ContentHasConfirmo(content) ==
    content.kind = "llm" /\ ReplyHasConfirmo[content.text]

\* _should_check_confirmation taking the keyword alone, whatever the state has
should_check_confirmation_on_keyword(state) ==
    LET last_user_message == get_last_user_message(state.messages)
    IN  IF state.confirmation_pending THEN "check_confirmation"
        ELSE IF /\ last_user_message # None /\ last_user_message[1] # <<>>
                /\ OfText[last_user_message[1]].is_confirm_word
        THEN "check_confirmation"
        ELSE "continue"

\* _should_check_confirmation: the edge taken after process_message
should_check_confirmation(state) ==
    LET last_user_message == get_last_user_message(state.messages)
    IN  IF state.confirmation_pending THEN "check_confirmation"
        ELSE IF /\ Truthy(state.recipient_phone) /\ Truthy(state.amount)
                /\ last_user_message # None /\ last_user_message[1] # <<>>
                /\ OfText[last_user_message[1]].is_confirm_word
        THEN "check_confirmation"
        ELSE "continue"

\* whether _process_message reaches self.llm.invoke
ProcessMessageCallsLLM(state) ==
    LET last_user_message == get_last_user_message(state.messages)
        text == IF last_user_message = None THEN <<>> ELSE last_user_message[1]
    IN  /\ ~ state.confirmation_pending
        /\ ~ (text # <<>> /\ OfText[text].is_balance_query)
        /\ ~ (text # <<>> /\ ~ OfText[text].is_transfer_related)

\* _process_message; llm is the outcome of self.llm.invoke
process_message(state, llm) ==
    LET last_user_message == get_last_user_message(state.messages)
        text == IF last_user_message = None THEN <<>> ELSE last_user_message[1]
        reply(content) == [state EXCEPT !.messages = Append(state.messages, AssistantMsg(content))]
    IN  IF state.confirmation_pending THEN state
        ELSE IF text # <<>> /\ OfText[text].is_balance_query
        THEN IF get_user_balance(state.user_id) # None
             THEN reply(Content("balance", <<>>, None))
             ELSE reply(BALANCE_UNAVAILABLE_MESSAGE)
        ELSE IF text # <<>> /\ ~ OfText[text].is_transfer_related
        THEN reply(REDIRECT_MESSAGE)
        ELSE IF llm.exc = "none"
        THEN reply(Content("llm", llm.text, None))
        ELSE reply(LLMErrorResponse(llm))

\* _extract_info taking whatever the message holds, set or not
extract_info_overwriting(state) ==
    LET last_user_message == get_last_user_message(state.messages)
    IN  IF last_user_message = None \/ last_user_message[1] = <<>> THEN state
        ELSE
        LET text == last_user_message[1]
            new_phone ==
                IF OfText[text].phone # None THEN OfText[text].phone
                ELSE state.recipient_phone
            new_amount ==
                IF OfText[text].amount # None THEN OfText[text].amount
                ELSE state.amount
        IN  [state EXCEPT !.recipient_phone = new_phone, !.amount = new_amount]

\* _extract_info, with the returned updates merged into the state
extract_info(state) ==
    LET last_user_message == get_last_user_message(state.messages)
    IN  IF last_user_message = None \/ last_user_message[1] = <<>> THEN state
        ELSE
        LET text == last_user_message[1]
            new_phone ==
                IF ~ Truthy(state.recipient_phone) THEN OfText[text].phone
                ELSE state.recipient_phone
            new_amount ==
                IF ~ Truthy(state.amount) THEN OfText[text].amount
                ELSE state.amount
        IN  [state EXCEPT !.recipient_phone = new_phone, !.amount = new_amount]

\* _after_extraction: the edge taken after extract_info
after_extraction(state) ==
    IF Truthy(state.recipient_phone) /\ Truthy(state.amount)
    THEN "need_confirmation" ELSE "continue"

\* whether _check_confirmation reaches self.llm.invoke
CheckConfirmationCallsLLM(state) ==
    LET last_assistant_message == LastWithRole(state.messages, "assistant")
    IN  /\ Truthy(state.recipient_phone) /\ Truthy(state.amount)
        /\ ~ state.confirmation_pending
        /\ (last_assistant_message = None \/ ~ ContentHasConfirmo(last_assistant_message[1]))

\* _check_confirmation emitting the prompt without setting confirmation_pending
check_confirmation_without_pending(state, llm) ==
    IF CheckConfirmationCallsLLM(state)
    THEN IF llm.exc = "none"
         THEN [state EXCEPT !.messages = Append(state.messages, AssistantMsg(Content("llm", llm.text, None)))]
         ELSE [state EXCEPT !.messages = Append(state.messages, AssistantMsg(LLMErrorResponse(llm))),
                            !.confirmation_pending = FALSE]
    ELSE state

\* _check_confirmation; llm is the outcome of self.llm.invoke
check_confirmation(state, llm) ==
    IF CheckConfirmationCallsLLM(state)
    THEN IF llm.exc = "none"
         THEN [state EXCEPT !.messages = Append(state.messages, AssistantMsg(Content("llm", llm.text, None))),
                            !.confirmation_pending = TRUE]
         ELSE [state EXCEPT !.messages = Append(state.messages, AssistantMsg(LLMErrorResponse(llm))),
                            !.confirmation_pending = FALSE]
    ELSE state

\* _is_confirmed: the edge taken after check_confirmation
is_confirmed(state) ==
    LET last_user_message == get_last_user_message(state.messages)
    IN  IF last_user_message = None THEN "waiting"
        ELSE OfText[last_user_message[1]].is_confirmed

(***************************************************************************)
(* rabbitmq_service.py (api-agent): the publisher                          *)
(***************************************************************************)
\* what the broker does to one send_transfer call: first is the outcome of the
\* try block (_ensure_connection and basic_publish), retry the outcome of the
\* reconnect-and-resend of the except clause
BrokerOutcomes ==
    {[first |-> "ok", retry |-> "not_called"], [first |-> "Exception", retry |-> "not_called"]}
    \cup {[first |-> f, retry |-> r] :
            f \in {"ensure_connection_AMQPError", "basic_publish_AMQPError"},
            r \in {"ok", "connect_error", "basic_publish_error"}}

\* send_transfer whose resend follows a first basic_publish that went through
send_transfer_resending(transfer_data, broker) ==
    IF broker.first = "ok"
    THEN [result |-> TRUE, publishes |-> 2, delivered |-> <<transfer_data, transfer_data>>]
    ELSE [result |-> FALSE, publishes |-> 0, delivered |-> <<>>]

\* send_transfer whose except clause returns False without the reconnect and
\* the resend
send_transfer_without_retry(transfer_data, broker) ==
    IF broker.first = "ok"
    THEN [result |-> TRUE, publishes |-> 1, delivered |-> <<transfer_data>>]
    ELSE [result |-> FALSE,
          publishes |-> IF broker.first = "basic_publish_AMQPError" THEN 1 ELSE 0,
          delivered |-> <<>>]

\* send_transfer: the returned flag, the number of basic_publish calls made and
\* the messages that reached the transfer queue
send_transfer(transfer_data, broker) ==
    IF broker.first = "ok"
    THEN [result |-> TRUE, publishes |-> 1, delivered |-> <<transfer_data>>]
    ELSE IF broker.first \in {"ensure_connection_AMQPError", "basic_publish_AMQPError"}
    THEN LET tried == IF broker.first = "basic_publish_AMQPError" THEN 1 ELSE 0
         IN  IF broker.retry = "ok"
             THEN [result |-> TRUE, publishes |-> tried + 1, delivered |-> <<transfer_data>>]
             ELSE IF broker.retry = "basic_publish_error"
             THEN [result |-> FALSE, publishes |-> tried + 1, delivered |-> <<>>]
             ELSE [result |-> FALSE, publishes |-> tried, delivered |-> <<>>]
    ELSE [result |-> FALSE, publishes |-> 0, delivered |-> <<>>]

\* get_rabbitmq_service: the global instance is built on first use, and
\* RabbitMQService.__init__ raises when the broker cannot be reached
RabbitConstructions == {"ok", "AMQPConnectionError"}

(***************************************************************************)
(* transaction_agent.py: _execute_transaction and process                  *)
(***************************************************************************)
TransactionId(n) == n

\* _execute_transaction whose return leaves confirmation_pending as it was
execute_transaction_keeps_pending(state, transaction_id, service, construct, broker) ==
    [state |-> [state EXCEPT !.messages = Append(state.messages,
                                              AssistantMsg(PROCESSING_MESSAGE(transaction_id))),
                             !.recipient_phone = None,
                             !.amount = None,
                             !.confirmation_pending = TRUE,
                             !.transaction_id = Some(transaction_id)],
     delivered |-> <<>>, publishes |-> 0, sent |-> FALSE, service |-> service]

\* _execute_transaction; transaction_id is the uuid drawn, service the global
\* RabbitMQService ("None" before its first construction), construct and
\* broker what the broker does.  Returns the new state, the messages that
\* reached the transfer queue and the state of the global instance.
execute_transaction(state, transaction_id, service, construct, broker) ==
    IF ~ Truthy(state.recipient_phone) \/ ~ Truthy(state.amount)
    THEN [state |-> [state EXCEPT !.messages = Append(state.messages, AssistantMsg(MISSING_DATA_MESSAGE)),
                                  !.confirmation_pending = FALSE],
          delivered |-> <<>>, publishes |-> 0, sent |-> FALSE, service |-> service]
    ELSE
    LET transfer_data ==
            [transaction_id |-> transaction_id,
             recipient_phone |-> state.recipient_phone[1],
             amount |-> state.amount[1],
             currency |-> state.currency,
             conversation_id |-> state.conversation_id,
             user_id |-> state.user_id]
        raised == service = "None" /\ construct # "ok"
        sent == IF raised THEN [result |-> FALSE, publishes |-> 0, delivered |-> <<>>]
                ELSE send_transfer(transfer_data, broker)
        success_message ==
            IF raised THEN SEND_PROBLEM_MESSAGE(transaction_id)
            ELSE PROCESSING_MESSAGE(transaction_id)
    IN  [state |-> [state EXCEPT !.messages = Append(state.messages, AssistantMsg(success_message)),
                                 !.recipient_phone = None,
                                 !.amount = None,
                                 !.confirmation_pending = FALSE,
                                 !.transaction_id = Some(transaction_id)],
         delivered |-> sent.delivered,
         publishes |-> sent.publishes,
         sent |-> sent.result,
         service |-> IF raised THEN "None" ELSE "connected"]

\* the graph of _build_graph up to the entry of check_confirmation: the state
\* there, and whether the run enters it (otherwise the run ends in that state)
RunToCheck(initial_state, llm1) ==
    LET s1 == process_message(initial_state, llm1)
    IN  IF should_check_confirmation(s1) = "check_confirmation"
        THEN [enters |-> TRUE, state |-> s1, processed |-> s1, nodes |-> <<"process_message">>]
        ELSE LET s2 == extract_info(s1)
             IN  [enters |-> after_extraction(s2) = "need_confirmation", state |-> s2,
                  processed |-> s1, nodes |-> <<"process_message", "extract_info">>]

\* the graph from there up to the entry of execute_transaction
RunToExecute(a, llm2) ==
    IF ~ a.enters THEN a
    ELSE LET s3 == check_confirmation(a.state, llm2)
         IN  [enters |-> is_confirmed(s3) = "yes", state |-> s3, processed |-> a.processed,
              nodes |-> Append(a.nodes, "check_confirmation")]

\* the graph from there to END
RunToEnd(b, transaction_id, service, construct, broker) ==
    IF ~ b.enters
    THEN [state |-> b.state, delivered |-> <<>>, publishes |-> 0, sent |-> FALSE,
          service |-> service, nodes |-> b.nodes]
    ELSE LET e == execute_transaction(b.state, transaction_id, service, construct, broker)
         IN  [state |-> e.state, delivered |-> e.delivered, publishes |-> e.publishes,
              sent |-> e.sent, service |-> e.service,
              nodes |-> Append(b.nodes, "execute_transaction")]

\* the initial_state that process builds from the user message and the context
InitialState(user_message, conversation_state) ==
    [messages |-> Append(conversation_state.messages, UserMsg(user_message)),
     recipient_phone |-> conversation_state.recipient_phone,
     amount |-> conversation_state.amount,
     currency |-> conversation_state.currency,
     confirmation_pending |-> conversation_state.confirmation_pending,
     transaction_id |-> conversation_state.transaction_id,
     user_id |-> conversation_state.user_id,
     conversation_id |-> conversation_state.conversation_id]

\* the negotiation fields of a state
Negotiation(state) ==
    [recipient_phone |-> state.recipient_phone,
     amount |-> state.amount,
     confirmation_pending |-> state.confirmation_pending,
     transaction_id |-> state.transaction_id]

\* process: the response and the state it returns from the final graph state
ProcessResult(final_state) ==
    LET last_assistant_message == LastWithRole(final_state.messages, "assistant")
    IN  [response |-> IF last_assistant_message = None THEN NO_RESPONSE_MESSAGE
                      ELSE last_assistant_message[1],
         state |-> [recipient_phone |-> final_state.recipient_phone,
                    amount |-> final_state.amount,
                    currency |-> final_state.currency,
                    confirmation_pending |-> final_state.confirmation_pending,
                    transaction_id |-> final_state.transaction_id,
                    messages |-> final_state.messages]]

(***************************************************************************)
(* The chat turn: conversations_service.py and agent_service.py            *)
(***************************************************************************)
VARIABLES
    dbConversation,     \* the conversations row (None before the first turn creates it)
    redis,              \* the cache entry conversation:{id} (None when absent)
    rabbitmq_service,   \* the global _rabbitmq_service of the agent process
    transferQueue,      \* the messages published to the transfer queue
    uuidCounter,        \* the number of transaction ids drawn so far
    lastTurn            \* what the latest chat turn did (observation only)

agentVars == <<dbConversation, redis, rabbitmq_service, transferQueue, uuidCounter, lastTurn,
               textTables>>

\* the Transfer Processor (api-transactions)
VARIABLES
    transferRequests,   \* the bodies published to the transfer queue, in order
    brokerQueue,        \* the bodies ready for delivery on the transfer queue
    unacked,            \* per worker: the body delivered to it and not yet settled
    userBalance,        \* users.balance, per user id
    transactionRows,    \* the rows of the transactions table
    responseQueue,      \* the TransferResults published to the response queue
    deliveries,         \* the number of deliveries the broker has made
    handled,            \* the bodies handed to the callback, in order
    lastCall            \* what the latest run of the callback did (observation only)

processorVars == <<transferRequests, brokerQueue, unacked, userBalance, transactionRows,
                   responseQueue, deliveries, handled, lastCall>>

\* one call of _is_confirmed, or of extract_amount
VARIABLES
    callText,           \* the text the call is made on
    callResult          \* what the call returned (None before it returns)

callVars == <<callText, callResult>>

\* the Result Notifier (api-agent): one run of its handler
VARIABLES
    resultDelivery,     \* the decoded TransferResult handed to the handler, and the database
    messageRows,        \* the rows the handler has added to the messages table
    notifierReturn      \* how the handler ended (None before it runs)

notifierVars == <<resultDelivery, messageRows, notifierReturn>>

\* the transaction ids drawn in the runs explored
MaxTransfers == 1

\* the authenticated user: controller.chat passes str(current_user.id)
USER_ID == [type |-> "str", value |-> 1]

\* the conversation id: _execute_transaction publishes str(conversation_id)
CONVERSATION_ID == 1

\* ConversationRepository.create: the row of a new conversation
NewConversation ==
    [recipient_phone |-> None, amount |-> None, currency |-> "COP",
     confirmation_pending |-> FALSE, transaction_id |-> None, status |-> "active"]

\* AgentService.get_conversation_context followed by the two assignments of
\* process_message: the context handed to the agent.  cached is what
\* redis_service.get returned; a cache hit returns the cached dictionary as
\* the context, and that dictionary holds recipient_phone, amount,
\* conversation_id and user_id only, so process reads its defaults for the
\* other keys.  A miss loads the conversations row and the messages table
\* (of which the agent can only read the latest assistant message).
get_conversation_context(cached, conversation, lastAssistant) ==
    IF cached # None
    THEN [recipient_phone |-> cached[1].recipient_phone,
          amount |-> cached[1].amount,
          currency |-> "COP",
          confirmation_pending |-> FALSE,
          transaction_id |-> None,
          messages |-> <<>>,
          user_id |-> USER_ID,
          conversation_id |-> CONVERSATION_ID]
    ELSE [recipient_phone |-> conversation.recipient_phone,
          amount |-> conversation.amount,
          currency |-> conversation.currency,
          confirmation_pending |-> conversation.confirmation_pending,
          transaction_id |-> conversation.transaction_id,
          messages |-> IF lastAssistant = None THEN <<>> ELSE <<AssistantMsg(lastAssistant[1])>>,
          user_id |-> USER_ID,
          conversation_id |-> CONVERSATION_ID]

\* the redis_data that get_conversation_context and save_conversation_context write
RedisData(context) == [recipient_phone |-> context.recipient_phone, amount |-> context.amount]

\* save_conversation_context: the conversations row after repository.update
save_conversation_context(conversation, context) ==
    [conversation EXCEPT !.recipient_phone = context.recipient_phone,
                         !.amount = context.amount,
                         !.currency = context.currency,
                         !.confirmation_pending = context.confirmation_pending,
                         !.transaction_id = context.transaction_id]

\* The messages table.  process_chat_message (lines 73-114) inserts the last
\* two messages of the turn unless a row with the same role and content
\* exists; get_conversation_context reads the rows back on a cache miss, and
\* the agent reads of them the latest assistant message only, for the
\* response of a turn that appends no message.  The rows are not kept: the
\* latest assistant row read is any content a previous turn can have stored.
StoredContents(drawn) ==
    {Content("llm", LLM_TEXT_PLAIN, None), Content("llm", LLM_TEXT_PROMPT, None),
     RATE_LIMIT_MESSAGE, CONFIGURATION_MESSAGE, GENERIC_ERROR_MESSAGE,
     BALANCE_UNAVAILABLE_MESSAGE, REDIRECT_MESSAGE, MISSING_DATA_MESSAGE}
    \cup {PROCESSING_MESSAGE(TransactionId(n)) : n \in 1..drawn}
    \cup {SEND_PROBLEM_MESSAGE(TransactionId(n)) : n \in 1..drawn}

\* the latest assistant row to explore for a turn that reads it (or not)
HistoryChoices(read, drawn) ==
    IF read THEN {Some(c) : c \in StoredContents(drawn)} ELSE {None}

\* the language-model outcomes to explore for a call that is (not) made
LLMChoices(called) == IF called THEN LLMOutcomes ELSE {NoLLMCall}

BrokerChoices(called) ==
    IF called THEN BrokerOutcomes ELSE {[first |-> "not_called", retry |-> "not_called"]}

ConstructChoices(called) == IF called THEN RabbitConstructions ELSE {"not_called"}

\* what the latest turn keeps of each node of the graph (observation only):
\* of process_message, whether it called the language model and whether it
\* returned the state it was given
ProcessObservation(before, after, llm) ==
    [called_llm |-> llm # NoLLMCall,
     appended |-> Len(after.messages) - Len(before.messages),
     unchanged |-> after = before]

\* of extract_info, the negotiation state it was given and the one it left,
\* and whether every other field is as it was
ExtractObservation(before, after) ==
    [before |-> Negotiation(before),
     after |-> Negotiation(after),
     frame |-> [after EXCEPT !.recipient_phone = before.recipient_phone,
                             !.amount = before.amount] = before]

\* of check_confirmation, whether the run entered it, the negotiation state
\* before and after, whether the last assistant message before it held the
\* keyword, what the language model did, and what it appended
CheckObservation(entered, before, after, llm) ==
    [entered |-> entered,
     before |-> Negotiation(before),
     keyword_shown |->
        LET last_assistant_message == LastWithRole(before.messages, "assistant")
        IN  last_assistant_message # None /\ ContentHasConfirmo(last_assistant_message[1]),
     llm |-> IF llm = NoLLMCall THEN "not_called"
             ELSE IF llm \in LLMFailures THEN "failed" ELSE "ok",
     appended |-> [i \in 1..(Len(after.messages) - Len(before.messages)) |->
                      after.messages[Len(before.messages) + i].content.kind],
     after |-> Negotiation(after),
     unchanged |-> after = before]

\* the context of a conversation with no row
NoContext == get_conversation_context(None, NewConversation, None)

\* ConversationsService.process_chat_message: one chat turn, from the lookup of
\* the conversation to the response
Chat(user_message) ==
    LET conversation ==
            IF dbConversation = None THEN NewConversation
            ELSE [dbConversation[1] EXCEPT !.status = "active"]
        reads == /\ redis = None
                 /\ conversation.confirmation_pending
                 /\ ~ OfText[user_message].is_confirm_word
    IN  \E lastAssistant \in HistoryChoices(reads, uuidCounter) :
        \E initial_state \in {InitialState(user_message,
                get_conversation_context(redis, conversation, lastAssistant))} :
        \E llm1 \in LLMChoices(ProcessMessageCallsLLM(initial_state)) :
        \E a \in {RunToCheck(initial_state, llm1)} :
        \E llm2 \in LLMChoices(a.enters /\ CheckConfirmationCallsLLM(a.state)) :
        \E b \in {RunToExecute(a, llm2)} :
        \E construct \in ConstructChoices(b.enters /\ rabbitmq_service = "None") :
        \E broker \in BrokerChoices(b.enters /\ construct \in {"ok", "not_called"}) :
        \E run \in {RunToEnd(b, TransactionId(uuidCounter + 1), rabbitmq_service,
                              construct, broker)} :
        \E result \in {ProcessResult(run.state)} :
        LET saved == save_conversation_context(conversation, result.state)
        IN  /\ b.enters => uuidCounter < MaxTransfers
            /\ dbConversation' =
                  Some(IF Truthy(result.state.transaction_id)
                       THEN [saved EXCEPT !.status = "completed"] ELSE saved)
            /\ redis' = Some(RedisData(result.state))
            /\ rabbitmq_service' = run.service
            /\ transferQueue' = transferQueue \o run.delivered
            /\ uuidCounter' = IF b.enters THEN uuidCounter + 1 ELSE uuidCounter
            /\ lastTurn' =
                  [message |-> user_message,
                   start |-> Negotiation(initial_state),
                   nodes |-> run.nodes,
                   llm_failed |-> llm1 \in LLMFailures \/ llm2 \in LLMFailures,
                   delivered |-> run.delivered,
                   publishes |-> run.publishes,
                   sent |-> run.sent,
                   broker |-> broker,
                   process |-> ProcessObservation(initial_state, a.processed, llm1),
                   extract |-> ExtractObservation(a.processed, a.state),
                   check |-> CheckObservation(a.enters, a.state, b.state, llm2),
                   response |-> result.response]
            /\ UNCHANGED <<textTables, processorVars, callVars, notifierVars>>

\* the cache entry expires (REDIS_TTL) or is evicted
RedisExpire ==
    /\ redis # None
    /\ redis' = None
    /\ UNCHANGED <<dbConversation, rabbitmq_service, transferQueue, uuidCounter, lastTurn>>
    /\ UNCHANGED <<textTables, processorVars, callVars, notifierVars>>

NoTurn ==
    [message |-> <<>>, start |-> Negotiation(NewConversation), nodes |-> <<>>,
     llm_failed |-> FALSE, delivered |-> <<>>, publishes |-> 0, sent |-> FALSE,
     broker |-> [first |-> "not_called", retry |-> "not_called"],
     process |-> ProcessObservation(InitialState(<<>>, NoContext), InitialState(<<>>, NoContext),
                                    NoLLMCall),
     extract |-> ExtractObservation(InitialState(<<>>, NoContext), InitialState(<<>>, NoContext)),
     check |-> CheckObservation(FALSE, InitialState(<<>>, NoContext),
                                InitialState(<<>>, NoContext), NoLLMCall),
     response |-> NO_RESPONSE_MESSAGE]

AgentInit ==
    /\ dbConversation = None
    /\ redis = None
    /\ rabbitmq_service = "None"
    /\ transferQueue = <<>>
    /\ uuidCounter = 0
    /\ lastTurn = NoTurn
    /\ textTables = [user |-> UserTextTable, reply |-> ReplyTextTable]

AgentNext ==
    \/ \E user_message \in UserMessages : Chat(user_message)
    \/ RedisExpire

(***************************************************************************)
(* api-transactions: rabbitmq_consumer.py and transfer_consumer_service.py *)
(***************************************************************************)
\* the consumers of the transfer queue
Workers == {1, 2}

\* the deliveries explored
MaxDeliveries == 3

\* the user of the requests, and the balance of the users row
PROCESSOR_USER == 1

\* a user id with no users row
UNKNOWN_USER == 2

INITIAL_BALANCE == 100

TransactionIds == {1, 2}

\* the amounts of the requests explored; the last is more than the balance
Amounts == {30, 60, 80, 150}

\* the values of a decoded JSON object: an int, a float, a str, and None for
\* a null or an absent key (message_data.get and the "not in ... or ... is
\* None" tests take the two alike)
JInt(n) == [int |-> n]

JFloat(v) == [float |-> v]

JStr(s) == [str |-> s]

JNull == [null |-> TRUE]

isinstance(v, type) == type \in DOMAIN v

\* str(v) of a str or of a non-negative int below ten
str(v) == IF isinstance(v, "str") THEN v.str ELSE <<DigitChar(v.int)>>

\* int(v) of an int or of a str of one digit
int(v) ==
    IF isinstance(v, "int") THEN v.int
    ELSE CHOOSE n \in 0..9 : <<DigitChar(n)>> = v.str

\* the transaction id uuid number n, as the agent writes it
TransactionIdText(n) == <<"t", "x", DigitChar(n)>>

\* the body of a TransferRequest as json.loads returns it
Request(transaction_id, amount) ==
    [transaction_id |-> JStr(TransactionIdText(transaction_id)),
     recipient_phone |-> JStr(MSG_PHONE),
     amount |-> JInt(amount),
     currency |-> "COP",
     conversation_id |-> JStr(<<DigitChar(CONVERSATION_ID)>>),
     user_id |-> JInt(PROCESSOR_USER)]

\* json.loads(json.dumps(transfer_data)): the body the consumer decodes from
\* what send_transfer publishes for the transfer_data of _execute_transaction.
\* The transaction id and the phone are strs, the amount is the float
\* validate_amount returned, conversation_id is str(conversation_id) and
\* user_id is the value the controller passed, a str.
Body(transfer_data) ==
    [transaction_id |-> JStr(TransactionIdText(transfer_data.transaction_id)),
     recipient_phone |-> JStr(transfer_data.recipient_phone),
     amount |-> JFloat(transfer_data.amount),
     currency |-> transfer_data.currency,
     conversation_id |-> JStr(<<DigitChar(transfer_data.conversation_id)>>),
     user_id |-> IF transfer_data.user_id.type = "str"
                 THEN JStr(<<DigitChar(transfer_data.user_id.value)>>)
                 ELSE JInt(transfer_data.user_id.value)]

\* a body on which json.loads raises JSONDecodeError
MALFORMED_BODY == [raw |-> "{"]

IsJson(body) == "raw" \notin DOMAIN body

\* the longest recipient_phone and the longest id _validate_message accepts
MAX_PHONE_LENGTH == 32

MAX_ID_LENGTH == 255

\* _validate_message: the errors it collects (is_valid is errors = {}); the
\* amounts explored are ints or floats, the phones and ids are strs, the user
\* ids are ints or strs of one digit
validate_message(message_data) ==
    LET missing(field) == isinstance(message_data[field], "null")
        required ==
            {<<"missing", field>> :
                field \in {f \in {"transaction_id", "conversation_id", "recipient_phone",
                                  "amount", "user_id"} : missing(f)}}
        typed ==
            {<<"type", field>> :
                field \in {f \in {"transaction_id", "conversation_id", "recipient_phone"} :
                              ~ missing(f) /\ ~ isinstance(message_data[f], "str")}}
            \cup {<<"type", field>> :
                    field \in {f \in {"amount"} :
                                  /\ ~ missing(f)
                                  /\ ~ isinstance(message_data[f], "int")
                                  /\ ~ isinstance(message_data[f], "float")}}
            \cup {<<"type", field>> :
                    field \in {f \in {"user_id"} :
                                  ~ missing(f) /\ ~ isinstance(message_data[f], "int")}}
        amount ==
            IF /\ ~ missing("amount")
               /\ IF isinstance(message_data.amount, "float")
                  THEN ~ FloatIsPositive(message_data.amount.float)
                  ELSE int(message_data.amount) <= 0
            THEN {<<"amount", "not positive">>} ELSE {}
        length(field, max) ==
            IF ~ missing(field)
               /\ (Len(strip(str(message_data[field]))) = 0
                   \/ Len(strip(str(message_data[field]))) > max)
            THEN {<<"length", field>>} ELSE {}
        user_id ==
            IF ~ missing("user_id") /\ int(message_data.user_id) <= 0
            THEN {<<"user_id", "not positive">>} ELSE {}
    IN  required \cup typed \cup amount \cup length("recipient_phone", MAX_PHONE_LENGTH)
        \cup length("transaction_id", MAX_ID_LENGTH)
        \cup length("conversation_id", MAX_ID_LENGTH) \cup user_id

\* max_retries of the retry loop
max_retries == 3

\* how many of the sessions a handler call opens fail, from the first on
DatabaseFailures == 0..max_retries

\* the database as a handler call reads and commits it; failing is the number
\* of sessions of the call that fail
Database(failing) == [balance |-> userBalance, rows |-> transactionRows, failing |-> failing]

TransferResult(message_data, status) ==
    [transaction_id |-> message_data.transaction_id, status |-> status]

TransactionRow(message_data, status) ==
    [transaction_id |-> message_data.transaction_id, amount |-> message_data.amount.int,
     status |-> status]

\* TransferConsumerService._process_message with the currency of the message
\* bound to the name that lines 81 to 278 read and passed to TransactionCreate:
\* the validation, the business checks, then the pending row, the debit, the
\* completed row and the success result, with a database that does not fail
transfer_process_message_with_currency(message_data, database) ==
    LET user_id == message_data.user_id.int
        amount == message_data.amount.int
        failed(db) ==
            [raised |-> "ValueError",
             database |-> [db EXCEPT !.rows = Append(@, TransactionRow(message_data, "failed"))],
             responses |-> <<TransferResult(message_data, "failed"),
                             TransferResult(message_data, "failed")>>]
    IN  IF validate_message(message_data) # {}
        THEN [raised |-> "ValueError", database |-> database,
              responses |-> <<TransferResult(message_data, "failed")>>]
        ELSE IF user_id \notin DOMAIN database.balance THEN failed(database)
        ELSE IF message_data.currency # "COP" THEN failed(database)
        ELSE IF database.balance[user_id] < amount THEN failed(database)
        ELSE [raised |-> "none",
              database |->
                  [database EXCEPT !.balance[user_id] = @ - amount,
                                   !.rows = Append(@, TransactionRow(message_data, "completed"))],
              responses |-> <<TransferResult(message_data, "success")>>]

\* TransferConsumerService._process_message with the debit of line 233 made
\* before the check of line 185 and committed on its own
transfer_process_message_debit_first(message_data, database) ==
    IF validate_message(message_data) # {}
       \/ message_data.user_id.int \notin DOMAIN database.balance
    THEN [raised |-> "ValueError", database |-> database, responses |-> <<>>]
    ELSE [raised |-> "OperationalError",
          database |-> [database EXCEPT !.balance[message_data.user_id.int] =
                                            @ - message_data.amount.int],
          responses |-> <<>>]

\* TransferConsumerService._process_message with the currency bound and
\* without the balance check of lines 183 to 213
transfer_process_message_without_balance_check(message_data, database) ==
    IF validate_message(message_data) # {}
       \/ message_data.user_id.int \notin DOMAIN database.balance
    THEN [raised |-> "ValueError", database |-> database, responses |-> <<>>]
    ELSE [raised |-> "none",
          database |->
              [database EXCEPT !.balance[message_data.user_id.int] = @ - message_data.amount.int,
                               !.rows = Append(@, TransactionRow(message_data, "completed"))],
          responses |-> <<TransferResult(message_data, "success")>>]

\* TransferConsumerService._process_message: the f-string of line 81 reads the
\* name currency, which neither the function nor the module binds, so the call
\* raises NameError before the try block of line 85 is entered
transfer_process_message(message_data, database) ==
    [raised |-> "NameError", database |-> database, responses |-> <<>>]

\* the except clause of RabbitMQConsumer._process_message that takes the
\* exception: "ack" for basic_ack, "drop" for basic_nack(requeue=False),
\* "requeue" for basic_nack(requeue=True)
settle(raised) ==
    IF raised = "none" THEN "ack"
    ELSE IF raised \in {"JSONDecodeError", "ValueError"} THEN "drop"
    ELSE "requeue"

\* RabbitMQConsumer._process_message: what the callback does with the delivery
\* and what the handler did
consumer_process_message(body, database) ==
    IF ~ IsJson(body)
    THEN [raised |-> "JSONDecodeError", settle |-> settle("JSONDecodeError"),
          database |-> database, responses |-> <<>>]
    ELSE LET h == transfer_process_message(body, database)
         IN  [raised |-> h.raised,
              settle |-> settle(h.raised),
              database |-> h.database,
              responses |-> h.responses]

\* the broker delivers the head of the queue to a consumer with no unsettled
\* delivery (prefetch_count=1)
Deliver(w) ==
    /\ deliveries < MaxDeliveries
    /\ brokerQueue # <<>>
    /\ unacked[w] = None
    /\ unacked' = [unacked EXCEPT ![w] = Some(Head(brokerQueue))]
    /\ brokerQueue' = Tail(brokerQueue)
    /\ deliveries' = deliveries + 1
    /\ UNCHANGED <<transferRequests, userBalance, transactionRows, responseQueue, handled,
                   lastCall>>
    /\ UNCHANGED <<agentVars, callVars, notifierVars>>

\* the callback of a consumer runs on its delivery; a requeued body goes back
\* to the head of the queue
OnMessage(w) ==
    /\ unacked[w] # None
    /\ \E failing \in DatabaseFailures :
       \E r \in {consumer_process_message(unacked[w][1], Database(failing))} :
        /\ userBalance' = r.database.balance
        /\ transactionRows' = r.database.rows
        /\ responseQueue' = responseQueue \o r.responses
        /\ brokerQueue' = IF r.settle = "requeue" THEN <<unacked[w][1]>> \o brokerQueue
                          ELSE brokerQueue
        /\ lastCall' = Some([body |-> unacked[w][1],
                             failing |-> failing,
                             balance |-> userBalance,
                             rows |-> transactionRows,
                             raised |-> r.raised,
                             settle |-> r.settle,
                             responses |-> r.responses])
    /\ unacked' = [unacked EXCEPT ![w] = None]
    /\ handled' = Append(handled, unacked[w][1])
    /\ UNCHANGED <<transferRequests, deliveries>>
    /\ UNCHANGED <<agentVars, callVars, notifierVars>>

\* a recipient_phone of 33 characters
LONG_PHONE == [i \in 1..(MAX_PHONE_LENGTH + 1) |-> "9"]

\* the bodies explored for one transaction id: the requests that pass
\* _validate_message (for each amount, for a user with no row, in a currency
\* other than the user's) and those that do not (amount missing, amount zero,
\* phone empty, phone too long, user id zero, user id a str as the agent
\* publishes it)
BodiesOf(transaction_id) ==
    LET r == Request(transaction_id, 30)
    IN  {Request(transaction_id, amount) : amount \in Amounts}
        \cup {[r EXCEPT !.user_id = JInt(UNKNOWN_USER)],
              [r EXCEPT !.currency = "USD"],
              [r EXCEPT !.amount = JNull],
              [r EXCEPT !.amount = JInt(0)],
              [r EXCEPT !.recipient_phone = JStr(<<>>)],
              [r EXCEPT !.recipient_phone = JStr(LONG_PHONE)],
              [r EXCEPT !.user_id = JInt(0)],
              [r EXCEPT !.user_id = JStr(<<DigitChar(PROCESSOR_USER)>>)]}

\* the bodies on the transfer queue when the consumers start: two bodies, each a
\* request or malformed; two requests with one transaction id are one request
\* published twice
ProcessorInit ==
    /\ \E bodyOf \in [TransactionIds -> UNION {BodiesOf(id) : id \in TransactionIds}] :
       \E ids \in [1..2 -> TransactionIds \cup {0}] :
          /\ \A id \in TransactionIds : bodyOf[id] \in BodiesOf(id)
          /\ transferRequests = [i \in 1..2 |-> IF ids[i] = 0 THEN MALFORMED_BODY
                                                ELSE bodyOf[ids[i]]]
    /\ brokerQueue = transferRequests
    /\ unacked = [w \in Workers |-> None]
    /\ userBalance = [u \in {PROCESSOR_USER} |-> INITIAL_BALANCE]
    /\ transactionRows = <<>>
    /\ responseQueue = <<>>
    /\ deliveries = 0
    /\ handled = <<>>
    /\ lastCall = None

\* no Transfer Processor
ProcessorIdle ==
    /\ transferRequests = <<>>
    /\ brokerQueue = <<>>
    /\ unacked = [w \in Workers |-> None]
    /\ userBalance = [u \in {PROCESSOR_USER} |-> INITIAL_BALANCE]
    /\ transactionRows = <<>>
    /\ responseQueue = <<>>
    /\ deliveries = 0
    /\ handled = <<>>
    /\ lastCall = None

ProcessorNext == \E w \in Workers : Deliver(w) \/ OnMessage(w)

(***************************************************************************)
(* _is_confirmed on its own                                                *)
(***************************************************************************)
Padding == {<<>>, <<" ">>, <<"\t">>}

ConfirmationWords ==
    {MSG_CONFIRMO, <<"C", "O", "N", "F", "I", "R", "M", "O">>,
     <<"C", "o", "n", "f", "i", "r", "m", "o">>, <<"c", "o", "n", "f", "i", "r", "m">>,
     <<"c", "o", "n", "f", "i", "r", "m", "o", "s">>, <<"o", "k">>, <<>>,
     <<"n", "o">>, <<"N", "O">>, <<"c", "a", "n", "c", "e", "l", "a", "r">>,
     <<"C", "a", "n", "c", "e", "l">>, <<"n", "o", "p", "e">>,
     <<"t", "e", "l", "e", "f", "o", "n", "o">>}

Endings == {<<>>, <<" ">>, <<"\n">>, <<" ", "n", "o">>, <<" ", "y", "a">>}

\* the last user messages of the calls explored
CallTexts == {p \o w \o e : p \in Padding, w \in ConfirmationWords, e \in Endings}

CallIsConfirmed ==
    /\ callResult = None
    /\ callResult' = Some(is_confirmed_text(callText))
    /\ UNCHANGED <<callText, agentVars, processorVars, notifierVars>>

CallInit == callText \in CallTexts /\ callResult = None

CallIdle == callText = <<>> /\ callResult = None

(***************************************************************************)
(* validate_amount on its own                                              *)
(***************************************************************************)
\* the numerals explored, each with the value it denotes (None for zero)
Numerals ==
    {[text |-> <<"0">>, value |-> None],
     [text |-> <<"0", ".", "0">>, value |-> None],
     [text |-> <<"1", "0", "0">>, value |-> Some([ip |-> <<"1", "0", "0">>, fp |-> <<>>])],
     [text |-> MSG_AMOUNT, value |-> Some([ip |-> MSG_AMOUNT, fp |-> <<>>])],
     [text |-> <<"0", ".", "5">>, value |-> Some([ip |-> <<>>, fp |-> <<"5">>])],
     [text |-> <<"1", ".", "5", "0">>, value |-> Some([ip |-> <<"1">>, fp |-> <<"5">>])],
     [text |-> <<"0", "0", "7">>, value |-> Some([ip |-> <<"7">>, fp |-> <<>>])]}

\* texts with no numeral
NoNumerals == {<<>>, <<"a", "b", "c">>, <<".">>, <<"-">>}

\* what surrounds a numeral: currency symbols and whitespace
Surroundings == {<<>>, <<"$">>, <<" ">>, <<"$", " ">>, <<"\t">>}

Signs == {<<>>, <<"-">>}

\* the amount texts of the calls explored
AmountTexts ==
    {b \o s \o n.text \o a : b \in Surroundings, s \in Signs, n \in Numerals, a \in Surroundings}
    \cup {b \o n \o a : b \in Surroundings, n \in NoNumerals, a \in Surroundings}

CallValidateAmount ==
    /\ callResult = None
    /\ callResult' = Some(extract_amount(callText))
    /\ UNCHANGED <<callText, agentVars, processorVars, notifierVars>>

CallAmountInit == callText \in AmountTexts /\ callResult = None

(***************************************************************************)
(* response_consumer_service.py: the Result Notifier                       *)
(***************************************************************************)
\* the conversations that have a row
ExistingConversations == {CONVERSATION_ID}

\* the value of a str of digits
RECURSIVE DigitsValue(_)
DigitsValue(s) ==
    IF s = <<>> THEN 0
    ELSE DigitsValue(SubSeq(s, 1, Len(s) - 1)) * 10
         + (CHOOSE n \in 0..9 : DigitChar(n) = s[Len(s)])

\* int(conversation_id) inside the try of lines 49-53: Some(n), or None when
\* int raises ValueError (a str that is no numeral) or TypeError (None)
int_or_none(v) ==
    IF isinstance(v, "int") THEN Some(v.int)
    ELSE IF isinstance(v, "str") /\ isdigit(strip(v.str)) THEN Some(DigitsValue(strip(v.str)))
    ELSE None

MSG_RESULT == <<"o", "k">>

UNKNOWN == <<"u", "n", "k", "n", "o", "w", "n">>

\* message_data.get(key, default) of a decoded object whose absent keys are
\* not in the record
get(message_data, key, default) ==
    IF key \in DOMAIN message_data THEN message_data[key] ELSE default

\* the content of the row: the message of the result and, when it is there,
\* the sentence with the balance and the currency appended to it
ResponseContent(message, balance) == [message |-> message, balance |-> balance]

\* ResponseConsumerService._process_message without the test of line 57
notifier_process_message_any_conversation(message_data, write) ==
    LET id == int_or_none(get(message_data, "conversation_id", JStr(UNKNOWN)))
    IN  IF id = None THEN [raised |-> "none", rows |-> <<>>]
        ELSE [raised |-> "none",
              rows |-> <<[conversation_id |-> id[1], role |-> "assistant",
                          content |-> ResponseContent(get(message_data, "message", JStr(<<>>)),
                                                      None)]>>]

\* ResponseConsumerService._process_message: how the call ends and the rows it
\* commits; write is what create_message and commit do ("ok" or "error")
notifier_process_message(message_data, write) ==
    LET conversation_id == get(message_data, "conversation_id", JStr(UNKNOWN))
        status == get(message_data, "status", JStr(<<"u", "n", "k", "n", "o", "w", "n">>))
        id == int_or_none(conversation_id)
        balance_after == get(message_data, "balance_after", JNull)
        balance ==
            IF status = JStr(<<"s", "u", "c", "c", "e", "s", "s">>) /\ ~ isinstance(balance_after, "null")
            THEN Some([balance_after |-> balance_after,
                       currency |-> get(message_data, "currency", JStr(<<"C", "O", "P">>))])
            ELSE None
    IN  IF id = None THEN [raised |-> "none", rows |-> <<>>]
        ELSE IF id[1] \notin ExistingConversations THEN [raised |-> "none", rows |-> <<>>]
        ELSE IF write # "ok" THEN [raised |-> "none", rows |-> <<>>]
        ELSE [raised |-> "none",
              rows |-> <<[conversation_id |-> id[1], role |-> "assistant",
                          content |-> ResponseContent(get(message_data, "message", JStr(<<>>)),
                                                      balance)]>>]

\* the TransferResults explored: each key present with one of its values, or
\* absent
ResultKeys == {"conversation_id", "status", "message", "balance_after", "currency"}

ResultValues(key) ==
    IF key = "conversation_id"
    THEN {JStr(<<DigitChar(CONVERSATION_ID)>>), JStr(<<" ", DigitChar(CONVERSATION_ID)>>),
          JStr(<<"1", "2">>), JStr(UNKNOWN), JStr(<<>>), JInt(CONVERSATION_ID), JInt(7), JNull}
    ELSE IF key = "status" THEN {JStr(<<"s", "u", "c", "c", "e", "s", "s">>), JStr(<<"f", "a", "i", "l", "e", "d">>)}
    ELSE IF key = "message" THEN {JStr(MSG_RESULT)}
    ELSE IF key = "balance_after" THEN {JInt(70), JNull}
    ELSE {JStr(<<"C", "O", "P">>), JStr(<<"U", "S", "D">>)}

TransferResults ==
    UNION {{r \in [keys -> UNION {ResultValues(k) : k \in keys}] :
                \A k \in keys : r[k] \in ResultValues(k)} :
           keys \in SUBSET ResultKeys}

\* the handler runs on the delivered result
NotifierOnMessage ==
    /\ notifierReturn = None
    /\ \E r \in {notifier_process_message(resultDelivery.message_data, resultDelivery.write)} :
        /\ messageRows' = messageRows \o r.rows
        /\ notifierReturn' = Some(r.raised)
    /\ UNCHANGED <<resultDelivery, agentVars, processorVars, callVars>>

NotifierInit ==
    /\ resultDelivery \in [message_data : TransferResults, write : {"ok", "error"}]
    /\ messageRows = <<>>
    /\ notifierReturn = None

NotifierIdle ==
    /\ resultDelivery = [message_data |-> [status |-> JStr(<<"f", "a", "i", "l", "e", "d">>)], write |-> "ok"]
    /\ messageRows = <<>>
    /\ notifierReturn = None

(***************************************************************************)
(* Specifications                                                          *)
(***************************************************************************)
vars == <<agentVars, processorVars, callVars, notifierVars>>

Init == AgentInit /\ ProcessorIdle /\ CallIdle /\ NotifierIdle

Next == AgentNext

\* the chat turns of one conversation
Spec == Init /\ [][Next]_vars

\* the Transfer Processor on two published bodies
InitProcessor == AgentInit /\ ProcessorInit /\ CallIdle /\ NotifierIdle

SpecProcessor == InitProcessor /\ [][ProcessorNext]_vars

\* one call of _is_confirmed
InitIsConfirmed == AgentInit /\ ProcessorIdle /\ CallInit /\ NotifierIdle

\* one run of the handler of the Result Notifier
InitNotifier == AgentInit /\ ProcessorIdle /\ CallIdle /\ NotifierInit

SpecNotifier == InitNotifier /\ [][NotifierOnMessage]_vars

\* one call of extract_amount
InitValidateAmount == AgentInit /\ ProcessorIdle /\ CallAmountInit /\ NotifierIdle

SpecValidateAmount == InitValidateAmount /\ [][CallValidateAmount]_vars

SpecIsConfirmed == InitIsConfirmed /\ [][CallIsConfirmed]_vars

(***************************************************************************)
(* Properties of the chat turn                                             *)
(***************************************************************************)
\* the latest turn's message is the confirmation keyword up to case and
\* surrounding whitespace
ConfirmTurn == lower(strip(lastTurn.message)) = CONFIRM_WORD

\* the latest turn's message contains a deny word and is no confirmation
DenyTurn ==
    /\ ~ ConfirmTurn
    /\ \E word \in DENY_WORDS : contains(lower(lastTurn.message), word)

\* the agent started the latest turn with both the phone and the amount
StartedWithData ==
    Truthy(lastTurn.start.recipient_phone) /\ Truthy(lastTurn.start.amount)

\* the negotiation state the latest turn ended with (the one it saved)
EndState == Negotiation(dbConversation[1])

\* C1: a turn publishes a TransferRequest only if its message, trimmed and
\* case-folded, equals "confirmo", and only with the recipient phone and the
\* amount of the conversation both set (they are the ones published)
C1_PublishOnlyOnConfirm ==
    (lastTurn.publishes > 0 \/ lastTurn.delivered # <<>>) =>
        /\ ConfirmTurn
        /\ StartedWithData
        /\ \A i \in 1..Len(lastTurn.delivered) :
              /\ lastTurn.delivered[i].recipient_phone = lastTurn.start.recipient_phone[1]
              /\ lastTurn.delivered[i].amount = lastTurn.start.amount[1]

\* a turn whose message is "Confirmo " put a request on the queue
C1_Witness ==
    lastTurn.message = MSG_CONFIRMO_PADDED /\ Len(lastTurn.delivered) = 1

\* C2: at the end of every turn, confirmation_pending implies that the
\* recipient phone and the amount are both set
C2_PendingImpliesData ==
    (dbConversation # None /\ dbConversation[1].confirmation_pending) =>
        Truthy(dbConversation[1].recipient_phone) /\ Truthy(dbConversation[1].amount)

\* a turn ended with confirmation_pending set
C2_Witness ==
    /\ dbConversation # None /\ dbConversation[1].confirmation_pending
    /\ "check_confirmation" \in {lastTurn.nodes[i] : i \in 1..Len(lastTurn.nodes)}

\* C3: once the conversation has a transaction id, the recipient phone and the
\* amount are null and confirmation_pending is false, at the end of the turn
\* that set it and of every later turn
C3_TransactionIdImpliesReset ==
    (dbConversation # None /\ Truthy(dbConversation[1].transaction_id)) =>
        /\ dbConversation[1].recipient_phone = None
        /\ dbConversation[1].amount = None
        /\ ~ dbConversation[1].confirmation_pending

\* C4: a conversation whose transaction id is T had the request T handed to
\* the transfer queue
C4_TransactionIdImpliesQueued ==
    (dbConversation # None /\ Truthy(dbConversation[1].transaction_id)) =>
        \E i \in 1..Len(transferQueue) :
            transferQueue[i].transaction_id = dbConversation[1].transaction_id[1]

\* what C5 promises of a turn: exactly one request on the queue, with the
\* phone and the amount of the conversation, its id the transaction id of the
\* conversation, and the phone, the amount and confirmation_pending cleared
OnePublishedAndCleared ==
    /\ Len(lastTurn.delivered) = 1
    /\ lastTurn.delivered[1].recipient_phone = lastTurn.start.recipient_phone[1]
    /\ lastTurn.delivered[1].amount = lastTurn.start.amount[1]
    /\ dbConversation[1].transaction_id = Some(lastTurn.delivered[1].transaction_id)
    /\ dbConversation[1].recipient_phone = None
    /\ dbConversation[1].amount = None
    /\ ~ dbConversation[1].confirmation_pending

C7_DenyClearsPending ==
    (DenyTurn /\ lastTurn.start.confirmation_pending) =>
        /\ lastTurn.delivered = <<>> /\ lastTurn.publishes = 0
        /\ ~ dbConversation[1].confirmation_pending

\* C8: a turn in which a language-model call failed answers with one of the
\* three fallback messages, ends with the negotiation state it started with
\* and publishes nothing
C8_LLMFailureLeavesState ==
    lastTurn.llm_failed =>
        /\ lastTurn.response \in FallbackMessages
        /\ EndState = lastTurn.start
        /\ lastTurn.delivered = <<>> /\ lastTurn.publishes = 0

(***************************************************************************)
(* Properties of _is_confirmed                                             *)
(***************************************************************************)
\* text, without its leading and trailing whitespace and case-folded, is word
EqualsUpToCaseAndPadding(text, word) ==
    \E i \in 1..(Len(text) + 1) :
        /\ i + Len(word) - 1 <= Len(text)
        /\ \A k \in 1..(i - 1) : text[k] \in Whitespace
        /\ \A k \in (i + Len(word))..Len(text) : text[k] \in Whitespace
        /\ \A k \in 1..Len(word) : LowerChar(text[i + k - 1]) = word[k]

\* text, case-folded, has word somewhere in it
HasWord(text, word) ==
    \E i \in 1..Len(text) :
        /\ i + Len(word) - 1 <= Len(text)
        /\ \A k \in 1..Len(word) : LowerChar(text[i + k - 1]) = word[k]

\* C6: _is_confirmed returns "yes" exactly when the message, trimmed and
\* case-folded, equals the confirmation keyword; otherwise "no" when the
\* message contains a deny word; otherwise "waiting"
C6_IsConfirmedVerdict ==
    callResult # None =>
        callResult[1] =
            IF EqualsUpToCaseAndPadding(callText, CONFIRM_WORD) THEN "yes"
            ELSE IF \E word \in DENY_WORDS : HasWord(callText, word) THEN "no"
            ELSE "waiting"

\* the call returned "yes" for a keyword typed in another case, with padding
C6_Witness ==
    /\ callResult = Some("yes")
    /\ callText = <<" ">> \o <<"C", "O", "N", "F", "I", "R", "M", "O">> \o <<"\n">>

(***************************************************************************)
(* Properties of the Transfer Processor                                    *)
(***************************************************************************)
\* the requests among the published bodies that pass _validate_message
PublishedRequests ==
    {transferRequests[i] :
        i \in {j \in DOMAIN transferRequests :
                  IsJson(transferRequests[j]) /\ validate_message(transferRequests[j]) = {}}}

\* the bodies the callback has run on
HandledBodies == {handled[i] : i \in DOMAIN handled}

RowsWithStatus(status) == {i \in DOMAIN transactionRows : transactionRows[i].status = status}

RECURSIVE SumOfAmounts(_)
SumOfAmounts(requests) ==
    IF requests = {} THEN 0
    ELSE LET r == CHOOSE x \in requests : TRUE
         IN  r.amount.int + SumOfAmounts(requests \ {r})

\* the two published bodies are requests of one user with different
\* transaction ids, each for no more than the balance, together for more
TwoCompetingRequests ==
    /\ Len(transferRequests) = 2
    /\ Cardinality(PublishedRequests) = 2
    /\ \A r \in PublishedRequests :
          /\ r.amount.int <= INITIAL_BALANCE
          /\ r.user_id.int = PROCESSOR_USER
          /\ r.currency = "COP"
    /\ SumOfAmounts(PublishedRequests) > INITIAL_BALANCE

\* C9: once the workers have handled two competing requests, exactly one
\* transfer is completed and one has failed, and the balance is the initial
\* balance minus the completed amount
C9_OneCompletedOneFailed ==
    (TwoCompetingRequests /\ HandledBodies = PublishedRequests) =>
        /\ Cardinality(RowsWithStatus("completed")) = 1
        /\ Cardinality(RowsWithStatus("failed")) = 1
        /\ \A i \in RowsWithStatus("completed") :
              userBalance[PROCESSOR_USER] = INITIAL_BALANCE - transactionRows[i].amount

RequestCall == lastCall # None /\ IsJson(lastCall[1].body)

\* ... that passes _validate_message
ValidCall == RequestCall /\ validate_message(lastCall[1].body) = {}

\* ... that fails it
InvalidCall == RequestCall /\ validate_message(lastCall[1].body) # {}

\* the user of the request has a row, the request is in the user's currency
\* and for no more than the balance the run started with
PassesBusinessChecks ==
    /\ lastCall[1].body.user_id.int \in DOMAIN lastCall[1].balance
    /\ lastCall[1].body.currency = "COP"
    /\ lastCall[1].body.amount.int <= lastCall[1].balance[lastCall[1].body.user_id.int]

\* the rows of the request of the latest run
RowsOfCall ==
    {i \in DOMAIN transactionRows :
        transactionRows[i].transaction_id = lastCall[1].body.transaction_id}

\* the results the latest run published, by status
ResultsOfCall(status) ==
    {i \in DOMAIN lastCall[1].responses :
        /\ lastCall[1].responses[i].status = status
        /\ lastCall[1].responses[i].transaction_id = lastCall[1].body.transaction_id}

RECURSIVE SumOfRows(_)
SumOfRows(rows) ==
    IF rows = {} THEN 0
    ELSE LET i == CHOOSE x \in rows : TRUE
         IN  transactionRows[i].amount + SumOfRows(rows \ {i})

C12_ValidRequestCompletes ==
    (ValidCall /\ PassesBusinessChecks /\ lastCall[1].failing = 0) =>
        /\ userBalance[PROCESSOR_USER] =
              lastCall[1].balance[PROCESSOR_USER] - lastCall[1].body.amount.int
        /\ Cardinality(RowsOfCall) = Cardinality(RowsOfCall \cap DOMAIN lastCall[1].rows) + 1
        /\ transactionRows[Len(transactionRows)].transaction_id = lastCall[1].body.transaction_id
        /\ transactionRows[Len(transactionRows)].status = "completed"
        /\ Cardinality(ResultsOfCall("success")) = 1
        /\ lastCall[1].settle = "ack"

\* C13: a run on a schema-valid request that fails a business check writes a
\* failed record, publishes a failed result and leaves the balance unchanged
C13_BusinessFailureRecorded ==
    (ValidCall /\ ~ PassesBusinessChecks /\ lastCall[1].failing = 0) =>
        /\ \E i \in RowsOfCall \ DOMAIN lastCall[1].rows : transactionRows[i].status = "failed"
        /\ ResultsOfCall("failed") # {}
        /\ userBalance = lastCall[1].balance

\* C14: a run on a request that fails schema validation writes a failed
\* record, publishes a failed result, is not retried and leaves the balance
\* unchanged
C14_InvalidRequestRecorded ==
    InvalidCall =>
        /\ \E i \in DOMAIN transactionRows \ DOMAIN lastCall[1].rows :
              transactionRows[i].status = "failed"
        /\ ResultsOfCall("failed") # {}
        /\ lastCall[1].settle # "requeue"
        /\ userBalance = lastCall[1].balance

\* C15: a delivery is acknowledged only when the handler returned; a delivery
\* of a body that fails validation (not JSON, or a request that fails
\* _validate_message, such as one with no amount) is dropped; a delivery on
\* which the handler fails otherwise is requeued
C15_SettledByOutcome ==
    lastCall # None =>
        /\ lastCall[1].settle = "ack" => lastCall[1].raised = "none"
        /\ (~ IsJson(lastCall[1].body) \/ InvalidCall) => lastCall[1].settle = "drop"
        /\ (ValidCall /\ lastCall[1].raised # "none") => lastCall[1].settle = "requeue"

\* C16: a run on a schema-valid request on which every database session
\* fails publishes a failed result, is not redelivered for ever, and leaves
\* the balance unchanged
C16_ExhaustedRetriesReported ==
    (ValidCall /\ lastCall[1].failing >= max_retries) =>
        /\ ResultsOfCall("failed") # {}
        /\ lastCall[1].settle # "requeue"
        /\ userBalance = lastCall[1].balance

C19_SendTransferAttempts ==
    lastTurn.broker.first # "not_called" =>
        /\ lastTurn.response = PROCESSING_MESSAGE(dbConversation[1].transaction_id[1])
        /\ lastTurn.publishes <= 2
        /\ lastTurn.broker.first = "ok" => lastTurn.publishes = 1
        /\ lastTurn.broker.first = "basic_publish_AMQPError" =>
              lastTurn.publishes = IF lastTurn.broker.retry = "connect_error" THEN 1 ELSE 2
        /\ lastTurn.sent <=> (lastTurn.broker.first = "ok" \/ lastTurn.broker.retry = "ok")
        /\ Len(lastTurn.delivered) = IF lastTurn.sent THEN 1 ELSE 0

\* the first publish of a call failed on the channel and the resend went
\* through
C19_Witness ==
    /\ lastTurn.broker = [first |-> "basic_publish_AMQPError", retry |-> "ok"]
    /\ lastTurn.publishes = 2
    /\ lastTurn.sent
    /\ Len(transferQueue) = 1

\* C20: a turn of a conversation that has had a turn starts from the
\* negotiation state the previous turn saved, whether the context comes from
\* the cache or from the conversations row
C20_TurnStartsFromSaved ==
    [][(redis' # None /\ dbConversation # None) =>
          lastTurn'.start = Negotiation(dbConversation[1])]_vars

(***************************************************************************)
(* Properties of the Result Notifier                                       *)
(***************************************************************************)
\* the conversation id of the delivered result, read as the claim reads it:
\* an integer, or a str that is the numeral of one
NamedConversation ==
    LET v == IF "conversation_id" \in DOMAIN resultDelivery.message_data
             THEN resultDelivery.message_data.conversation_id ELSE JNull
    IN  IF isinstance(v, "int") THEN {v.int}
        ELSE IF isinstance(v, "str")
        THEN {n \in 0..20 : \E pad \in {<<>>, <<" ">>} :
                 v.str = pad \o (IF n < 10 THEN <<DigitChar(n)>>
                                 ELSE <<DigitChar(n \div 10), DigitChar(n % 10)>>)}
        ELSE {}

C22_ValidateAmountVerdict ==
    callResult # None =>
        /\ \A b \in Surroundings, n \in NoNumerals, a \in Surroundings :
              callText = b \o n \o a => callResult[1] = None
        /\ \A b \in Surroundings, n \in Numerals, a \in Surroundings :
              /\ callText = b \o <<"-">> \o n.text \o a => callResult[1] = None
              /\ callText = b \o n.text \o a => callResult[1] = n.value

(***************************************************************************)
(* Properties of the nodes of the graph                                    *)
(***************************************************************************)
\* the latest turn went from process_message straight to check_confirmation
WentToCheck == lastTurn.nodes[2] = "check_confirmation"

\* C23: after process_message the turn goes to check_confirmation exactly
\* when a confirmation was pending at the start of the turn, or the message
\* is the keyword and the phone and the amount were both set; otherwise it
\* goes to extract_info; and with a confirmation pending process_message
\* calls no language model, appends no message and returns the state as is
C23_RouteAfterProcessMessage ==
    lastTurn # NoTurn =>
        /\ Len(lastTurn.nodes) >= 2
        /\ lastTurn.nodes[1] = "process_message"
        /\ WentToCheck <=>
              \/ lastTurn.start.confirmation_pending
              \/ ConfirmTurn /\ StartedWithData
        /\ ~ WentToCheck => lastTurn.nodes[2] = "extract_info"
        /\ lastTurn.start.confirmation_pending =>
              /\ ~ lastTurn.process.called_llm
              /\ lastTurn.process.appended = 0
              /\ lastTurn.process.unchanged

C23_Witness ==
    /\ ConfirmTurn /\ StartedWithData
    /\ ~ lastTurn.start.confirmation_pending
    /\ WentToCheck

\* the latest turn entered check_confirmation with the phone and the amount set
CheckedWithData ==
    /\ lastTurn.check.entered
    /\ Truthy(lastTurn.check.before.recipient_phone)
    /\ Truthy(lastTurn.check.before.amount)

\* a confirmation was requested before check_confirmation ran: the flag is
\* set, or the last assistant message holds the keyword
AlreadyRequested ==
    lastTurn.check.before.confirmation_pending \/ lastTurn.check.keyword_shown

\* check_confirmation emitted nothing and returned the state it was given
CheckLeftState == lastTurn.check.appended = <<>> /\ lastTurn.check.unchanged

\* check_confirmation appended one message of one of the given kinds and
\* changed nothing else but confirmation_pending, which it left as given
CheckEmitted(kinds, pending) ==
    /\ Len(lastTurn.check.appended) = 1
    /\ lastTurn.check.appended[1] \in kinds
    /\ lastTurn.check.after =
          [lastTurn.check.before EXCEPT !.confirmation_pending = pending]

FallbackKinds ==
    {RATE_LIMIT_MESSAGE.kind, CONFIGURATION_MESSAGE.kind, GENERIC_ERROR_MESSAGE.kind}

\* C24 as stated: check_confirmation entered with both fields set and no
\* confirmation requested yet always emits the prompt and leaves
\* confirmation_pending true; with one requested it leaves the state as is
C24_AsStated ==
    CheckedWithData =>
        /\ ~ AlreadyRequested => CheckEmitted({"llm"}, TRUE)
        /\ AlreadyRequested => CheckLeftState

\* C24, amended: the same, unless the language-model call for the prompt
\* fails; then one fallback message is emitted and confirmation_pending
\* stays false
C24_CheckConfirmationPrompts ==
    CheckedWithData =>
        /\ ~ AlreadyRequested /\ lastTurn.check.llm = "ok" => CheckEmitted({"llm"}, TRUE)
        /\ ~ AlreadyRequested /\ lastTurn.check.llm = "failed" =>
              CheckEmitted(FallbackKinds, FALSE)
        /\ ~ AlreadyRequested => lastTurn.check.llm # "not_called"
        /\ AlreadyRequested => CheckLeftState /\ lastTurn.check.llm = "not_called"

C24_Witness ==
    /\ CheckedWithData /\ ~ AlreadyRequested
    /\ lastTurn.check.llm = "ok"
    /\ lastTurn.check.after.confirmation_pending
    /\ dbConversation # None /\ dbConversation[1].confirmation_pending

\* the latest turn ran extract_info
Extracted == lastTurn # NoTurn /\ lastTurn.nodes[2] = "extract_info"

\* C25: extract_info keeps a recipient_phone or an amount the state already
\* holds; a field it fills holds a value that passes validation, the one
\* extracted from the message, and stays unset otherwise; no other field of
\* the state changes
C25_ExtractInfoFillsUnset ==
    Extracted =>
        LET before == lastTurn.extract.before
            after == lastTurn.extract.after
        IN  /\ Truthy(before.recipient_phone) => after.recipient_phone = before.recipient_phone
            /\ Truthy(before.amount) => after.amount = before.amount
            /\ ~ Truthy(before.recipient_phone) /\ after.recipient_phone # None =>
                  /\ validate_phone_number(after.recipient_phone[1])
                  /\ after.recipient_phone = extract_phone_number(lastTurn.message)
            /\ ~ Truthy(before.amount) /\ after.amount # None =>
                  /\ FloatIsPositive(after.amount[1])
                  /\ after.amount = extract_amount(lastTurn.message)
            /\ lastTurn.extract.frame
            /\ after.confirmation_pending = before.confirmation_pending
            /\ after.transaction_id = before.transaction_id

C25_Witness ==
    /\ Extracted
    /\ Truthy(lastTurn.extract.before.amount)
    /\ extract_amount(lastTurn.message) # None
    /\ extract_amount(lastTurn.message) # lastTurn.extract.before.amount
    /\ lastTurn.extract.after.amount = lastTurn.extract.before.amount
    /\ ~ Truthy(lastTurn.extract.before.recipient_phone)
    /\ Truthy(lastTurn.extract.after.recipient_phone)

\* C26: a turn that publishes a TransferRequest entered execute_transaction
\* with confirmation_pending true, and the language-model call for the
\* confirmation prompt did not fail in that turn
C26_PublishAfterPrompt ==
    (lastTurn.publishes > 0 \/ lastTurn.delivered # <<>>) =>
        /\ lastTurn.check.entered
        /\ lastTurn.check.after.confirmation_pending
        /\ lastTurn.check.llm # "failed"

(***************************************************************************)
(* Properties of the agent and the processor together                      *)
(***************************************************************************)
\* C27: every TransferRequest the agent has put on the transfer queue passes
\* _validate_message of the Transfer Processor
C27_PublishedRequestValidates ==
    \A i \in DOMAIN transferQueue : validate_message(Body(transferQueue[i])) = {}

C30_PhoneIsNotTheAmount ==
    /\ (Extracted /\ lastTurn.message = MSG_PHONE
            /\ ~ Truthy(lastTurn.extract.before.recipient_phone)
            /\ ~ Truthy(lastTurn.extract.before.amount)) =>
          /\ lastTurn.extract.after.recipient_phone = Some(MSG_PHONE)
          /\ lastTurn.extract.after.amount = None
    /\ \A i \in DOMAIN transferQueue :
          transferQueue[i].amount # float(transferQueue[i].recipient_phone, <<>>)

====
